---- MODULE Spec2Model ----
(***************************************************************************)
(* Model of the openstorage driver registry (volume/volume.go), the NFS    *)
(* driver (its initializer and its volume operations) and the cluster      *)
(* database read/write protocol (cluster/database.go).                     *)
(*                                                                         *)
(* Specifications:                                                         *)
(*   Spec     the driver registry called from concurrent threads           *)
(*   SpecLive the same under the scheduler's fairness                      *)
(*   SpecDB   the cluster database called from cooperating processes       *)
(*   SpecNfs  the NFS driver's volume operations and its Shutdown          *)
(***************************************************************************)
EXTENDS Integers, Sequences, FiniteSets, TLC

VARIABLES
    drivers,      \* volume.go:12  name -> registered InitFunc
    instances,    \* volume.go:11  name -> live VolumeDriver
    mutex,        \* volume.go:13  the thread holding the lock, or NoThread
    pc,           \* position of each thread inside a registry call
    arg,          \* arguments of the call a thread is executing
    cur,          \* driver value a thread holds locally (New: driver; Shutdown: v)
    todo,         \* Shutdown: names the range loop has not visited yet
    ret,          \* what the call that returned last returned, under its thread
    nextInst,     \* identity of the next driver object allocated
    nfsMounted,   \* the sources mounted on nfsMountPath, top last
    sdCalls,      \* per thread: the drivers whose Shutdown() the Shutdown call it is inside has run
    shut,         \* the drivers the Shutdown calls that have returned shut down
    fatal,        \* the Go runtime aborted the process
    store,        \* value under key "cluster/database" in the kvdb
    dbpc,         \* the cluster database call each process is inside, if any
    local,        \* the Database each process holds (written, or read back)
    dbret,        \* what the last readDatabase/writeDatabase of a process returned
    lastPut,      \* the record of the last successful writeDatabase, if any
    copy,         \* how current the record each process holds is
    vols,         \* the NFS driver's volume records in the kvdb, by id
    mounts,       \* the host's mount table: mount point -> sources, top last
    dirs,         \* the volume directories that exist, each in its filesystem
    nextVol,      \* the id the next uuid.New() returns
    npc,          \* per caller: its position inside an NFS driver call
    nargs,        \* per caller: the arguments of that call
    nv,           \* per caller: the *api.Volume the call holds (v)
    ncalls,       \* how many NFS driver calls have begun
    nret          \* what the NFS driver call that returned last returned

regvars == <<drivers, instances, mutex, pc, arg, cur, todo, ret, nextInst,
             nfsMounted, sdCalls, shut, fatal>>
dbvars  == <<store, dbpc, local, dbret, lastPut, copy>>
nfsvars == <<vols, mounts, dirs, nextVol, npc, nargs, nv, ncalls, nret>>
vars    == <<drivers, instances, mutex, pc, arg, cur, todo, ret, nextInst,
             nfsMounted, sdCalls, shut, fatal, store, dbpc, local, dbret,
             lastPut, copy, vols, mounts, dirs, nextVol, npc, nargs, nv,
             ncalls, nret>>

----------------------------------------------------------------------------
(* Bounds and input sets *)

MaxInst == 3

Threads == {"t1", "t2"}
NoThread == "nobody"

Names == {"nfs", "demo"}

\* The InitFunc values handed to Register: the NFS driver's Init and one
\* arbitrary initializer, which may succeed or fail.
InitFuncs == {"nfs.Init", "initAny"}

None == "none"
Nil == "nil"

\* DriverParams: maps from a subset of the keys to string values.
ParamKeys == {"path", "server"}
ParamVals == {"v"}
DriverParams == UNION {[K -> ParamVals] : K \in SUBSET ParamKeys}
NoParams == [k \in {} |-> ""]

ErrExist == "Driver already exists"
ErrDriverNotFound == "Driver implementation not found"
ErrNotSupported == "Operation not supported"
ErrNoPath == "No NFS path provided"
ErrMkdir == "os.MkdirAll failed"
ErrMount == "syscall.Mount failed"
ErrInitAny == "initializer failed"

NoArg == [name |-> None, params |-> NoParams, f |-> None]

\* A driver object: its identity and the fields nfs.Init fills in.
Driver(id, kind, server, path) ==
    [id |-> id, kind |-> kind, nfsServer |-> server, nfsPath |-> path]

\* the nil VolumeDriver
NoDriver == Driver(0, None, "", "")

\* An interface value read while volume.go:163 is writing its two words:
\* not nil, and not a driver any initializer returned.
TornDriver == Driver(0, "torn", "", "")

Result(op, n, v, e) == [op |-> op, name |-> n, val |-> v, err |-> e]
NoRet == Result(None, None, NoDriver, Nil)

----------------------------------------------------------------------------
(* The registry: volume.go *)

\* the call of t returns r: r is the result that was returned last
Returned(t, r) == [u \in Threads |-> IF u = t THEN r ELSE NoRet]

\* mutex.Lock()
Lock(t) == mutex = NoThread /\ mutex' = t

\* a return from a function that took the mutex and never unlocks it
ReturnUnlock_KeepsLock(t, r) ==
    /\ mutex' = mutex
    /\ pc' = [pc EXCEPT ![t] = "idle"]
    /\ ret' = Returned(t, r)
    /\ arg' = [arg EXCEPT ![t] = NoArg]
    /\ cur' = [cur EXCEPT ![t] = NoDriver]

\* a return from a function that did "defer mutex.Unlock()"
ReturnUnlock(t, r) ==
    /\ mutex' = NoThread
    /\ pc' = [pc EXCEPT ![t] = "idle"]
    /\ ret' = Returned(t, r)
    /\ arg' = [arg EXCEPT ![t] = NoArg]
    /\ cur' = [cur EXCEPT ![t] = NoDriver]

\* a caller invokes one of the registry functions
Call(t, label, a) ==
    /\ ~fatal
    /\ pc[t] = "idle"
    /\ pc' = [pc EXCEPT ![t] = label]
    /\ arg' = [arg EXCEPT ![t] = a]
    /\ ret' = [ret EXCEPT ![t] = NoRet]

\* ---- Register (volume.go:169-177)
RegisterCall(t, n, f) ==
    /\ Call(t, "reg_lock", [name |-> n, params |-> NoParams, f |-> f])
    /\ UNCHANGED <<drivers, instances, mutex, cur, todo, nextInst, nfsMounted,
                   sdCalls, fatal, shut>>

RegisterLock(t) ==
    /\ ~fatal
    /\ pc[t] = "reg_lock"
    /\ Lock(t)
    /\ pc' = [pc EXCEPT ![t] = "reg_check"]
    /\ UNCHANGED <<drivers, instances, arg, cur, todo, ret, nextInst,
                   nfsMounted, sdCalls, fatal, shut>>

\* Register that stores the initializer without looking for an earlier one
RegisterBody_Overwrite(drv, n, f) ==
    [drivers |-> [drv EXCEPT ![n] = f], err |-> Nil]

\* lines 172-176: the drivers map and the error Register leaves behind
RegisterBody(drv, n, f) ==
    IF drv[n] # None
    THEN [drivers |-> drv, err |-> ErrExist]
    ELSE [drivers |-> [drv EXCEPT ![n] = f], err |-> Nil]

Register(t) ==
    /\ ~fatal
    /\ pc[t] = "reg_check"
    /\ LET r == RegisterBody(drivers, arg[t].name, arg[t].f) IN
         /\ drivers' = r.drivers
         /\ ReturnUnlock(t, Result("Register", arg[t].name, NoDriver, r.err))
    /\ UNCHANGED <<instances, todo, nextInst, nfsMounted, sdCalls, fatal, shut>>

\* ---- New (volume.go:151-167)
NewCall(t, n, p) ==
    /\ Call(t, "new_lock", [name |-> n, params |-> p, f |-> None])
    /\ UNCHANGED <<drivers, instances, mutex, cur, todo, nextInst, nfsMounted,
                   sdCalls, fatal, shut>>

NewLock(t) ==
    /\ ~fatal
    /\ pc[t] = "new_lock"
    /\ Lock(t)
    /\ pc' = [pc EXCEPT ![t] = "new_check"]
    /\ UNCHANGED <<drivers, instances, arg, cur, todo, ret, nextInst,
                   nfsMounted, sdCalls, fatal, shut>>

\* New without the test of line 155
NewLookup_NoExistCheck(inst, drv, n) ==
    IF drv[n] # None THEN "init" ELSE "unsupported"

\* New that reports a missing initializer with the error of line 156
NewLookup_MissingIsExist(inst, drv, n) ==
    IF inst[n] # NoDriver THEN "exist"
    ELSE IF drv[n] # None THEN "init"
    ELSE "exist"

\* lines 155-158 and 166: which way New goes after the two map lookups
NewLookup(inst, drv, n) ==
    IF inst[n] # NoDriver THEN "exist"
    ELSE IF drv[n] # None THEN "init"
    ELSE "unsupported"

\* New that unlocks before it calls the initializer
MutexAtInit_Released(t) == NoThread

\* the mutex New holds when it hands control to the initializer (line 159)
MutexAtInit(t) == t

NewCheck(t) ==
    /\ ~fatal
    /\ pc[t] = "new_check"
    /\ LET n == arg[t].name
           way == NewLookup(instances, drivers, n) IN
         CASE way = "exist" ->
                /\ ReturnUnlock(t, Result("New", n, NoDriver, ErrExist))
           [] way = "unsupported" ->
                /\ ReturnUnlock(t, Result("New", n, NoDriver, ErrNotSupported))
           [] way = "init" ->
                /\ pc' = [pc EXCEPT ![t] = "init_call"]
                /\ arg' = [arg EXCEPT ![t].f = drivers[n]]
                /\ mutex' = MutexAtInit(t)
                /\ UNCHANGED <<cur, ret>>
    /\ UNCHANGED <<drivers, instances, todo, nextInst, nfsMounted, sdCalls,
                   fatal, shut>>

\* lines 160-162: the initializer returned an error
NewInitFailed(t, err) ==
    /\ ReturnUnlock(t, Result("New", arg[t].name, NoDriver, err))
    /\ UNCHANGED <<drivers, instances, todo, nextInst, sdCalls, fatal, shut>>

\* the initializer returned a driver: New goes on to line 163
NewInitOk(t, kind, server, path) ==
    /\ nextInst <= MaxInst
    /\ cur' = [cur EXCEPT ![t] = Driver(nextInst, kind, server, path)]
    /\ nextInst' = nextInst + 1
    /\ pc' = [pc EXCEPT ![t] = "new_store"]
    /\ UNCHANGED <<drivers, instances, mutex, arg, todo, ret, sdCalls, fatal, shut>>

\* ---- nfs.Init (part_000:36-73), running inside New
\* lines 37-47: the parameter map
NfsInitParams(t) ==
    /\ ~fatal
    /\ pc[t] = "init_call"
    /\ arg[t].f = "nfs.Init"
    /\ IF "path" \notin DOMAIN arg[t].params
       THEN NewInitFailed(t, ErrNoPath) /\ UNCHANGED nfsMounted
       ELSE /\ pc' = [pc EXCEPT ![t] = "init_mkdir"]
            /\ UNCHANGED <<drivers, instances, mutex, arg, cur, todo, ret,
                           nextInst, nfsMounted, sdCalls, fatal, shut>>

\* line 54: os.MkdirAll(nfsMountPath) succeeds or fails
NfsInitMkdir(t) ==
    /\ ~fatal
    /\ pc[t] = "init_mkdir"
    /\ \E ok \in BOOLEAN :
         IF ok
         THEN /\ pc' = [pc EXCEPT ![t] = "init_unmount"]
              /\ UNCHANGED <<drivers, instances, mutex, arg, cur, todo, ret,
                             nextInst, nfsMounted, sdCalls, fatal, shut>>
         ELSE NewInitFailed(t, ErrMkdir) /\ UNCHANGED nfsMounted

\* the server field of the driver object: params["server"], "" when absent
NfsServer(p) == IF "server" \in DOMAIN p THEN p["server"] ELSE ""

\* syscall.Unmount(nfsMountPath, 0) whose result the caller drops
\* (part_000:60, 191): the topmost mount is taken off, or the call fails
\* (nothing mounted, or the mount is busy) and the stack stays as it was
UnmountDropped(stack) ==
    {stack} \cup
    IF stack # <<>> THEN {SubSeq(stack, 1, Len(stack) - 1)} ELSE {}

\* the source syscall.Mount is given on lines 61-65: the export of the
\* server, or the local path of a bind mount when server is ""
NfsSource(p) == <<NfsServer(p), p["path"]>>

\* syscall.Mount(source, nfsMountPath, ...) of lines 61-65: the source goes
\* on top of what nfsMountPath carries, or the call fails
MountOnTop(stack, source) ==
    {[stack |-> Append(stack, source), err |-> Nil],
     [stack |-> stack, err |-> ErrMount]}

\* line 60: the unmount whose result is dropped, a system call of its own
NfsInitUnmount(t) ==
    /\ ~fatal
    /\ pc[t] = "init_unmount"
    /\ nfsMounted' \in UnmountDropped(nfsMounted)
    /\ pc' = [pc EXCEPT ![t] = "init_mount"]
    /\ UNCHANGED <<drivers, instances, mutex, arg, cur, todo, ret, nextInst,
                   sdCalls, fatal, shut>>

\* lines 61-72: the mount of the source on top of what nfsMountPath carries
\* by now; it succeeds or fails
NfsInitMount(t) ==
    /\ ~fatal
    /\ pc[t] = "init_mount"
    /\ \E mt \in MountOnTop(nfsMounted, NfsSource(arg[t].params)) :
         /\ nfsMounted' = mt.stack
         /\ IF mt.err = Nil
            THEN NewInitOk(t, "nfs", NfsServer(arg[t].params),
                           arg[t].params["path"])
            ELSE NewInitFailed(t, mt.err)

\* ---- any other initializer: returns a driver or an error
InitAny(t) ==
    /\ ~fatal
    /\ pc[t] = "init_call"
    /\ arg[t].f = "initAny"
    /\ UNCHANGED nfsMounted
    /\ \E ok \in BOOLEAN :
         IF ok THEN NewInitOk(t, "any", "", "")
               ELSE NewInitFailed(t, ErrInitAny)

\* line 163, instances[name] = driver: the map assignment begins ...
NewStoreBegin(t) ==
    /\ ~fatal
    /\ pc[t] = "new_store"
    /\ pc' = [pc EXCEPT ![t] = "new_storing"]
    /\ UNCHANGED <<drivers, instances, mutex, arg, cur, todo, ret, nextInst,
                   nfsMounted, sdCalls, fatal, shut>>

\* the instance map after line 163
StoreInstance(inst, n, d) == [inst EXCEPT ![n] = d]

\* ... and completes; line 164 returns the driver
NewStore(t) ==
    /\ ~fatal
    /\ pc[t] = "new_storing"
    /\ instances' = StoreInstance(instances, arg[t].name, cur[t])
    /\ ReturnUnlock(t, Result("New", arg[t].name, cur[t], Nil))
    /\ UNCHANGED <<drivers, todo, nextInst, nfsMounted, sdCalls, fatal, shut>>

\* ---- Get (volume.go:144-149): no mutex.Lock()
GetCall(t, n) ==
    /\ Call(t, "get_read", [name |-> n, params |-> NoParams, f |-> None])
    /\ UNCHANGED <<drivers, instances, mutex, cur, todo, nextInst, nfsMounted,
                   sdCalls, fatal, shut>>

\* lines 145-148 on a map nobody is writing
MapRead(inst, n) ==
    IF inst[n] # NoDriver THEN [val |-> inst[n], err |-> Nil]
                          ELSE [val |-> NoDriver, err |-> ErrDriverNotFound]

\* the threads that are inside the map assignment of line 163
Writers == {u \in Threads : pc[u] = "new_storing"}

\* What a lookup can return.  A lookup that overlaps another thread's map
\* assignment is a data race on a Go map: it may see the map before or after
\* the assignment, miss a key that is present, or find the key while its
\* value is still zero (a nil driver with a nil error) or half written.
GetOutcomes(t) ==
    IF Writers \ {t} = {}
    THEN {MapRead(instances, arg[t].name)}
    ELSE {MapRead(instances, arg[t].name),
          [val |-> NoDriver, err |-> ErrDriverNotFound],
          [val |-> NoDriver, err |-> Nil],
          [val |-> TornDriver, err |-> Nil]}
         \cup {MapRead(StoreInstance(instances, arg[u].name, cur[u]),
                       arg[t].name) : u \in Writers \ {t}}

Get(t) ==
    /\ ~fatal
    /\ pc[t] = "get_read"
    /\ \E r \in GetOutcomes(t) :
         /\ ret' = Returned(t, Result("Get", arg[t].name, r.val, r.err))
         /\ pc' = [pc EXCEPT ![t] = "idle"]
         /\ arg' = [arg EXCEPT ![t] = NoArg]
    /\ UNCHANGED <<drivers, instances, mutex, cur, todo, nextInst, nfsMounted,
                   sdCalls, fatal, shut>>

\* The other outcome of the racing lookup: the runtime detects the concurrent
\* map read and map write and aborts the process.
GetFatal(t) ==
    /\ ~fatal
    /\ pc[t] = "get_read"
    /\ Writers \ {t} # {}
    /\ fatal' = TRUE
    /\ UNCHANGED <<drivers, instances, mutex, pc, arg, cur, todo, ret,
                   nextInst, nfsMounted, sdCalls, shut>>

\* ---- Shutdown (volume.go:136-142)
ShutdownCall(t) ==
    /\ Call(t, "sd_lock", NoArg)
    /\ UNCHANGED <<drivers, instances, mutex, cur, todo, nextInst, nfsMounted,
                   sdCalls, fatal, shut>>

\* lines 137-139: take the lock and start the range over the instance map
ShutdownLock(t) ==
    /\ ~fatal
    /\ pc[t] = "sd_lock"
    /\ Lock(t)
    /\ todo' = [todo EXCEPT ![t] = {n \in Names : instances[n] # NoDriver}]
    /\ pc' = [pc EXCEPT ![t] = "sd_range"]
    /\ UNCHANGED <<drivers, instances, arg, cur, ret, nextInst, nfsMounted,
                   sdCalls, fatal, shut>>

\* the mutex Shutdown holds when it calls v.Shutdown() (line 140)
MutexAtDriverShutdown(t) == t

\* line 139: the next map entry, in any order, or the end of the loop
ShutdownRange(t) ==
    /\ ~fatal
    /\ pc[t] = "sd_range"
    /\ IF todo[t] = {}
       THEN /\ ReturnUnlock(t, Result("Shutdown", None, NoDriver, Nil))
            /\ shut' = shut \cup {sdCalls[t][i] : i \in 1..Len(sdCalls[t])}
            /\ sdCalls' = [sdCalls EXCEPT ![t] = <<>>]
            /\ UNCHANGED todo
       ELSE \E n \in todo[t] :
              /\ cur' = [cur EXCEPT ![t] = instances[n]]
              /\ todo' = [todo EXCEPT ![t] = todo[t] \ {n}]
              /\ pc' = [pc EXCEPT ![t] = "sd_driver"]
              /\ mutex' = MutexAtDriverShutdown(t)
              /\ UNCHANGED <<arg, ret, sdCalls, shut>>
    /\ UNCHANGED <<drivers, instances, nextInst, nfsMounted, fatal>>

\* line 140, v.Shutdown(): the NFS driver unmounts nfsMountPath and drops
\* the result (part_000:189-192); any other driver leaves the mounts alone
DriverShutdown(t) ==
    /\ ~fatal
    /\ pc[t] = "sd_driver"
    /\ IF cur[t].kind = "nfs"
       THEN nfsMounted' \in UnmountDropped(nfsMounted)
       ELSE nfsMounted' = nfsMounted
    /\ sdCalls' = [sdCalls EXCEPT ![t] = Append(sdCalls[t], cur[t].id)]
    /\ cur' = [cur EXCEPT ![t] = NoDriver]
    /\ pc' = [pc EXCEPT ![t] = "sd_range"]
    /\ UNCHANGED <<drivers, instances, mutex, arg, todo, ret, nextInst, fatal, shut>>

\* volume.go:179-182 (init) and the zero values of the other variables
RegIdle ==
    /\ drivers = [n \in Names |-> None]
    /\ instances = [n \in Names |-> NoDriver]
    /\ mutex = NoThread
    /\ pc = [t \in Threads |-> "idle"]
    /\ arg = [t \in Threads |-> NoArg]
    /\ cur = [t \in Threads |-> NoDriver]
    /\ todo = [t \in Threads |-> {}]
    /\ ret = [t \in Threads |-> NoRet]
    /\ nextInst = 1
    /\ sdCalls = [t \in Threads |-> <<>>]
    /\ shut = {}
    /\ fatal = FALSE

\* before the first Init nothing is mounted on nfsMountPath
RegInit == RegIdle /\ nfsMounted = <<>>

----------------------------------------------------------------------------
(* The cluster database: cluster/database.go *)

Procs == {"p1", "p2"}

\* Info.Status values; StatusInit is the one readDatabase starts from
StatusInit == "initializing"
StatusOk == "ok"
Statuses == {StatusInit, StatusOk}

\* node ids in the order encoding/json writes map keys (sorted)
KeyOrder == <<"n1", "n2">>
NodeIds == {KeyOrder[i] : i \in 1..Len(KeyOrder)}
\* a Node record, opaque here, and the zero value Node{}
NodeRecs == {"node"}
ZeroNode == "Node{}"
NodeVals == NodeRecs \cup {ZeroNode}

\* A Go map value: nil, or a map (make(map[string]Node) is the empty one).
NilMap == [nil |-> TRUE, m |-> <<>>]
MakeMap(f) == [nil |-> FALSE, m |-> f]
NodeMaps == {NilMap} \cup
            {MakeMap(f) : f \in UNION {[K -> NodeRecs] : K \in SUBSET NodeIds}}

Database(status, nodes) == [Cluster |-> [Status |-> status], Nodes |-> nodes]
Databases == {Database(s, nm) : s \in Statuses, nm \in NodeMaps}
NoDatabase == Database(None, NilMap)

\* error values are message fragments in order; the nil error has none
NoErr == <<>>
KeyNotFoundMsg == "100: Key not found"
ErrKeyNotFound == <<KeyNotFoundMsg, " (/cluster/database)">>
ErrUnreachable == <<"501: All the given peers are not reachable">>
ErrSyntax == <<"json: unexpected end of JSON input">>
ErrType == <<"json: cannot unmarshal value into Go value">>
StoreFailures == {ErrUnreachable}

\* strings.Contains(err.Error(), part)
Contains(msg, part) == \E i \in 1..Len(msg) : msg[i] = part

\* ---- encoding/json on the Database type.  Bytes are token sequences:
\* "{" and "}" delimit an object, "null" is the JSON null, every other token
\* is a string or scalar; an object is a sequence of key, value pairs.
EmptyObject == <<"{", "}">>

RECURSIVE EncEntries(_, _)
EncEntries(m, i) ==
    IF i > Len(KeyOrder) THEN <<>>
    ELSE (IF KeyOrder[i] \in DOMAIN m THEN <<KeyOrder[i], m[KeyOrder[i]]>>
                                      ELSE <<>>)
         \o EncEntries(m, i + 1)

EncMap(nodes) ==
    IF nodes.nil THEN <<"null">>
    ELSE <<"{">> \o EncEntries(nodes.m, 1) \o <<"}">>

\* json.Marshal(db)
Marshal(db) ==
    <<"{", "Cluster", "{", "Status", db.Cluster.Status, "}", "Nodes">>
    \o EncMap(db.Nodes) \o <<"}">>

\* The syntax check json.Unmarshal runs first: the index after the value that
\* starts at i, or 0 when the input is not well formed there.
RECURSIVE SkipValue(_, _)
RECURSIVE SkipMembers(_, _)
SkipValue(toks, i) ==
    IF i > Len(toks) THEN 0
    ELSE IF toks[i] = "}" THEN 0
    ELSE IF toks[i] = "{" THEN SkipMembers(toks, i + 1)
    ELSE i + 1

SkipMembers(toks, i) ==
    IF i > Len(toks) THEN 0
    ELSE IF toks[i] = "}" THEN i + 1
    ELSE IF toks[i] = "{" THEN 0
    ELSE LET j == SkipValue(toks, i + 1) IN
           IF j = 0 THEN 0 ELSE SkipMembers(toks, j)

Valid(toks) == SkipValue(toks, 1) = Len(toks) + 1

TypeError(acc) == [acc EXCEPT !.err = IF acc.err = NoErr THEN ErrType ELSE @]

\* the members of the Info object, from index i
RECURSIVE DecodeInfoMembers(_, _, _)
DecodeInfoMembers(toks, i, acc) ==
    IF toks[i] = "}" THEN acc
    ELSE LET j == SkipValue(toks, i + 1)
             a == IF toks[i] # "Status" THEN acc
                  ELSE IF toks[i + 1] \in Statuses
                       THEN [acc EXCEPT !.db.Cluster.Status = toks[i + 1]]
                       ELSE IF toks[i + 1] = "null" THEN acc
                       ELSE TypeError(acc)
         IN DecodeInfoMembers(toks, j, a)

\* the members of the Nodes object, from index i.  Each value is decoded into
\* a fresh zero Node, which is then put in the map under its key whatever the
\* value was: null leaves the Node zero, so does an object that sets none of
\* its fields, and a value of another kind leaves it zero and is a type error.
RECURSIVE DecodeNodeMembers(_, _, _)
DecodeNodeMembers(toks, i, acc) ==
    IF toks[i] = "}" THEN acc
    ELSE LET j == SkipValue(toks, i + 1)
             k == toks[i]
             v == toks[i + 1]
             old == acc.db.Nodes.m
             elem == IF v \in NodeVals THEN v ELSE ZeroNode
             put == [acc EXCEPT !.db.Nodes.m =
                        [x \in DOMAIN old \cup {k} |->
                            IF x = k THEN elem ELSE old[x]]]
             a == IF v \in NodeVals \cup {"null", "{"} THEN put
                  ELSE TypeError(put)
         IN DecodeNodeMembers(toks, j, a)

\* the members of the top-level object, from index i; unknown keys are skipped
RECURSIVE DecodeMembers(_, _, _)
DecodeMembers(toks, i, acc) ==
    IF toks[i] = "}" THEN acc
    ELSE LET j == SkipValue(toks, i + 1)
             v == toks[i + 1]
             a == CASE toks[i] = "Cluster" ->
                         IF v = "{" THEN DecodeInfoMembers(toks, i + 2, acc)
                         ELSE IF v = "null" THEN acc
                         ELSE TypeError(acc)
                    [] toks[i] = "Nodes" ->
                         IF v = "null" THEN [acc EXCEPT !.db.Nodes = NilMap]
                         ELSE IF v = "{"
                         THEN DecodeNodeMembers(toks, i + 2,
                                 IF acc.db.Nodes.nil
                                 THEN [acc EXCEPT !.db.Nodes = MakeMap(<<>>)]
                                 ELSE acc)
                         ELSE TypeError(acc)
                    [] OTHER -> acc
         IN DecodeMembers(toks, j, a)

\* json.Unmarshal(bytes, &db): db keeps the fields the input does not set;
\* a syntax error leaves db untouched, a type error is reported after the rest
\* of the input has been decoded.
Unmarshal(toks, db) ==
    IF ~Valid(toks) THEN [db |-> db, err |-> ErrSyntax]
    ELSE IF toks[1] = "{" THEN DecodeMembers(toks, 2, [db |-> db, err |-> NoErr])
    ELSE IF toks[1] = "null" THEN [db |-> db, err |-> NoErr]
    ELSE [db |-> db, err |-> ErrType]

\* ---- the kvdb contract
Absent == [present |-> FALSE, Value |-> <<>>]
Stored(bytes) == [present |-> TRUE, Value |-> bytes]
NilKV == [nil |-> TRUE, Value |-> <<>>]

\* kvdb.Get("cluster/database"): the pair, a key-not-found error, or a failure
KvGet(st) ==
    (IF st.present THEN {[kv |-> [nil |-> FALSE, Value |-> st.Value],
                          err |-> NoErr]}
                   ELSE {[kv |-> NilKV, err |-> ErrKeyNotFound]})
    \cup {[kv |-> NilKV, err |-> e] : e \in StoreFailures}

\* kvdb.Put("cluster/database", b, 0): stored, or a failure
KvPut(st, b) ==
    {[store |-> Stored(b), err |-> NoErr]}
    \cup {[store |-> st, err |-> e] : e \in StoreFailures}

\* ---- readDatabase (database.go:13-39), given what kvdb.Get returned
NewDatabase == Database(StatusInit, MakeMap(<<>>))

\* readDatabase that never decodes the stored value
readDatabase_SkipDecode(g) ==
    IF g.err # NoErr /\ ~Contains(g.err, KeyNotFoundMsg)
    THEN [db |-> NewDatabase, err |-> g.err]
    ELSE [db |-> NewDatabase, err |-> NoErr]

\* readDatabase without "err = nil" on line 27
readDatabase_KeepNotFoundErr(g) ==
    IF g.err # NoErr /\ ~Contains(g.err, KeyNotFoundMsg)
    THEN [db |-> NewDatabase, err |-> g.err]
    ELSE IF g.kv.nil \/ g.kv.Value = EmptyObject
    THEN [db |-> NewDatabase, err |-> g.err]
    ELSE Unmarshal(g.kv.Value, NewDatabase)

\* readDatabase that drops the error of json.Unmarshal
readDatabase_IgnoreDecodeErr(g) ==
    IF g.err # NoErr /\ ~Contains(g.err, KeyNotFoundMsg)
    THEN [db |-> NewDatabase, err |-> g.err]
    ELSE IF g.kv.nil \/ g.kv.Value = EmptyObject
    THEN [db |-> NewDatabase, err |-> NoErr]
    ELSE [db |-> Unmarshal(g.kv.Value, NewDatabase).db, err |-> NoErr]

\* readDatabase without the test of line 20: every Get error counts as
\* "uninitialized"
readDatabase_AnyErrUninit(g) ==
    IF g.kv.nil \/ g.kv.Value = EmptyObject
    THEN [db |-> NewDatabase, err |-> NoErr]
    ELSE Unmarshal(g.kv.Value, NewDatabase)

readDatabase(g) ==
    IF g.err # NoErr /\ ~Contains(g.err, KeyNotFoundMsg)
    THEN [db |-> NewDatabase, err |-> g.err]
    ELSE IF g.kv.nil \/ g.kv.Value = EmptyObject
    THEN [db |-> NewDatabase, err |-> NoErr]
    ELSE Unmarshal(g.kv.Value, NewDatabase)

\* ---- writeDatabase (database.go:41-60), given what kvdb.Put returns
writeDatabase(db, put) == put.err

DbResult(op, err, gerr) == [op |-> op, err |-> err, get |-> gerr]
NoDbResult == DbResult(None, NoErr, NoErr)

\* a process calls readDatabase()
ReadCall(p) ==
    /\ dbpc[p] = "idle"
    /\ dbpc' = [dbpc EXCEPT ![p] = "read"]
    /\ local' = [local EXCEPT ![p] = NoDatabase]
    /\ dbret' = [dbret EXCEPT ![p] = NoDbResult]
    /\ UNCHANGED <<store, lastPut, copy>>

\* How current a process's record is: "none" (it has read nothing), "fresh"
\* (what the key holds), "stale" (another process has written since), or
\* "clobbered" (it wrote while stale, over a write it never read).
AfterRead(cp, p, err) ==
    [cp EXCEPT ![p] = IF err = NoErr THEN "fresh" ELSE "none"]
AfterWrite(cp, p, err) ==
    IF err # NoErr THEN cp
    ELSE [q \in Procs |->
            IF q = p THEN (CASE cp[p] = "stale" -> "clobbered"
                             [] cp[p] = "none" -> "none"
                             [] OTHER -> "fresh")
            ELSE IF cp[q] = "none" THEN "none" ELSE "stale"]

\* readDatabase that stores the default record when the cluster is
\* uninitialized
ReadDatabase_PersistDefault(p) ==
    /\ dbpc[p] = "read"
    /\ \E g \in KvGet(store) :
         LET r == readDatabase(g) IN
           /\ local' = [local EXCEPT ![p] = r.db]
           /\ dbret' = [dbret EXCEPT ![p] = DbResult("read", r.err, g.err)]
           /\ copy' = AfterRead(copy, p, r.err)
           /\ store' = IF g.kv.nil /\ r.err = NoErr
                       THEN Stored(Marshal(r.db)) ELSE store
    /\ dbpc' = [dbpc EXCEPT ![p] = "idle"]
    /\ UNCHANGED lastPut

\* the call runs (one round trip to the store) and returns (db, err)
ReadDatabase(p) ==
    /\ dbpc[p] = "read"
    /\ \E g \in KvGet(store) :
         LET r == readDatabase(g) IN
           /\ local' = [local EXCEPT ![p] = r.db]
           /\ dbret' = [dbret EXCEPT ![p] = DbResult("read", r.err, g.err)]
           /\ copy' = AfterRead(copy, p, r.err)
    /\ dbpc' = [dbpc EXCEPT ![p] = "idle"]
    /\ UNCHANGED <<store, lastPut>>

\* a process calls writeDatabase(&db)
WriteCall(p, db) ==
    /\ dbpc[p] = "idle"
    /\ dbpc' = [dbpc EXCEPT ![p] = "write"]
    /\ local' = [local EXCEPT ![p] = db]
    /\ dbret' = [dbret EXCEPT ![p] = NoDbResult]
    /\ UNCHANGED <<store, lastPut, copy>>

ErrConflict == <<"101: Compare failed">>

\* writeDatabase with a compare-and-set: a process whose record is stale is
\* refused
WriteDatabase_CompareAndSet(p) ==
    /\ dbpc[p] = "write"
    /\ \E put \in KvPut(store, Marshal(local[p])) :
         LET err == IF copy[p] = "stale" THEN ErrConflict
                    ELSE writeDatabase(local[p], put) IN
           /\ store' = IF err = ErrConflict THEN store ELSE put.store
           /\ dbret' = [dbret EXCEPT ![p] = DbResult("write", err, NoErr)]
           /\ lastPut' = IF err = NoErr THEN local[p] ELSE lastPut
           /\ copy' = AfterWrite(copy, p, err)
    /\ dbpc' = [dbpc EXCEPT ![p] = "idle"]
    /\ UNCHANGED local

\* the call runs (one round trip to the store) and returns err
WriteDatabase(p) ==
    /\ dbpc[p] = "write"
    /\ \E put \in KvPut(store, Marshal(local[p])) :
         LET err == writeDatabase(local[p], put) IN
           /\ store' = put.store
           /\ dbret' = [dbret EXCEPT ![p] = DbResult("write", err, NoErr)]
           /\ lastPut' = IF err = NoErr THEN local[p] ELSE lastPut
           /\ copy' = AfterWrite(copy, p, err)
    /\ dbpc' = [dbpc EXCEPT ![p] = "idle"]
    /\ UNCHANGED local

\* what the key may hold before the first call
Truncations(b) == {SubSeq(b, 1, k) : k \in 0..(Len(b) - 1)}
Malformed ==
    UNION {Truncations(Marshal(db)) : db \in Databases}
    \cup {<<"}">>, <<"{", "Nodes", "{", "n1", "}">>}
WrongType == {<<"{", "Nodes", "7", "}">>,
              <<"{", "Cluster", "{", "Status", "{", "}", "}", "}">>,
              <<"{", "Nodes", "{", "n1", "7", "n2", "node", "}", "}">>}
Partial == {<<"{", "Cluster", "{", "Status", StatusOk, "}", "}">>,
            <<"{", "Nodes", "{", "n2", "node", "}", "}">>, <<"null">>,
            <<"{", "Nodes", "{", "n1", "null", "}", "}">>,
            <<"{", "Nodes", "{", "n1", "{", "}", "}", "}">>}
InitialStores ==
    {Absent, Stored(EmptyObject)}
    \cup {Stored(b) : b \in Malformed \cup WrongType \cup Partial}
    \cup {Stored(Marshal(db)) : db \in Databases}

DbIdle ==
    /\ dbpc = [p \in Procs |-> "idle"]
    /\ local = [p \in Procs |-> NoDatabase]
    /\ dbret = [p \in Procs |-> NoDbResult]
    /\ lastPut = NoDatabase
    /\ copy = [p \in Procs |-> "none"]

----------------------------------------------------------------------------
(* The NFS driver's volume operations (nfs driver, part_000:88-183)         *)
(* called from concurrent goroutines, over the volume store the driver      *)
(* keeps through its DefaultEnumerator and the mount table of the host.     *)

MaxVols == 2
MaxCalls == 4

\* api.VolumeID: uuid.New() mints the ids 1, 2, ...; api.BadVolumeID, the
\* empty string, is the id no call of uuid.New() returns.
BadVolumeID == 0
VolIds == 1..MaxVols

nfsMountPath == "/var/lib/openstorage/nfs/"
DevicePath(volumeID) == <<nfsMountPath, volumeID>>

\* The filesystem a path under nfsMountPath leads into: the source mounted
\* on top of nfsMountPath, or the local directory when nothing is mounted.
\* A directory is the pair of its filesystem and its name in it.
LocalFs == <<"local", nfsMountPath>>
VisibleFs(stack) == IF stack = <<>> THEN LocalFs ELSE stack[Len(stack)]
Resolve(stack, path) == <<VisibleFs(stack), path[2]>>

\* the export the driver's Init has mounted (part_000:61-65)
Export == <<"v", "v">>

\* api.VolumeLocator (its Name), api.CreateOptions, api.VolumeSpec
Locators == {[Name |-> "a"]}
CreateOptions == [FailIfExists : BOOLEAN]
Formats == {"", "nfs", "ext4"}
VolumeSpecs == [Format : Formats]
MountPaths == {"/mnt/a", "/mnt/b"}

ErrFormat == "Unsupported filesystem format: "
ErrNotMounted == "Device not mounted"
ErrUnmount == "syscall.Unmount failed"
ErrKvdb == "kvdb: request failed"
ErrVolNotFound == "kvdb: key not found"

\* the api.Volume built on lines 108-117 (Ctime and LastScan are clock values)
Volume(volumeID, locator, spec) ==
    [ID |-> volumeID, Locator |-> locator, Spec |-> spec, Format |-> "nfs",
     State |-> "VolumeAvailable", DevicePath |-> DevicePath(volumeID),
     AttachPath |-> ""]
NoVol == Volume(BadVolumeID, [Name |-> ""], [Format |-> ""])

\* DefaultEnumerator: one record per volume id in the kvdb.  Each request
\* either takes effect or fails and leaves the store as it was.
PutVol(vs, v) ==
    [i \in DOMAIN vs \cup {v.ID} |-> IF i = v.ID THEN v ELSE vs[i]]
CreateVol(vs, v) ==
    {[vols |-> PutVol(vs, v), err |-> Nil], [vols |-> vs, err |-> ErrKvdb]}
UpdateVol(vs, v) ==
    {[vols |-> PutVol(vs, v), err |-> Nil], [vols |-> vs, err |-> ErrKvdb]}
GetVol(vs, volumeID) ==
    {[vol |-> NoVol, err |-> ErrKvdb]} \cup
    IF volumeID \in DOMAIN vs
    THEN {[vol |-> vs[volumeID], err |-> Nil]}
    ELSE {[vol |-> NoVol, err |-> ErrVolNotFound]}
DeleteVol(vs, volumeID) ==
    {[vols |-> vs, err |-> ErrKvdb]} \cup
    IF volumeID \in DOMAIN vs
    THEN {[vols |-> [i \in DOMAIN vs \ {volumeID} |-> vs[i]], err |-> Nil]}
    ELSE {[vols |-> vs, err |-> ErrVolNotFound]}

\* The host.  ms maps a mount point to the stack of directories mounted on
\* it, ds is the set of volume directories that exist, each in the
\* filesystem it was made in.
\* os.MkdirAll(nfsMountPath+volumeID, 0744)
MkdirAll(ds, path) ==
    {[dirs |-> ds \cup {path}, err |-> Nil], [dirs |-> ds, err |-> ErrMkdir]}
\* os.Remove(path)
Remove(ds, path) ==
    {[dirs |-> ds \ {path}, err |-> Nil], [dirs |-> ds, err |-> "os.Remove failed"]}
\* syscall.Mount(source, target, fstype, MS_BIND, ""): a bind mount of a
\* directory that exists goes on top of what target carries, however many
\* mounts that is, or fails
SyscallMount(ms, ds, source, target) ==
    {[mounts |-> ms, err |-> ErrMount]} \cup
    IF source \in ds /\ target \in DOMAIN ms
    THEN {[mounts |-> [ms EXCEPT ![target] = Append(@, source)], err |-> Nil]}
    ELSE {}
\* syscall.Unmount(target, 0): takes the topmost mount off target, or fails;
\* it fails when nothing is mounted on target
SyscallUnmount(ms, target) ==
    {[mounts |-> ms, err |-> ErrUnmount]} \cup
    IF target \in DOMAIN ms /\ ms[target] # <<>>
    THEN {[mounts |-> [ms EXCEPT ![target] = SubSeq(@, 1, Len(@) - 1)],
           err |-> Nil]}
    ELSE {}

\* Calls of the driver come from concurrent goroutines; the driver holds no
\* lock, so each request to the store or to the host is a step of its own
\* and the steps of two calls interleave.  v is the *api.Volume the call
\* holds between its requests.  MaxCalls calls are begun in all.
Callers == {"g1", "g2"}
NoCaller == "nobody"
NoArgs == [op |-> None]
NfsResult(g, op, volumeID, e) == [g |-> g, op |-> op, id |-> volumeID, err |-> e]
NoNfsResult == NfsResult(NoCaller, None, BadVolumeID, Nil)

\* a stored volume has the locator l
LocatorExists(l) == \E i \in DOMAIN vols : vols[i].Locator = l

NfsCall(g, a) ==
    /\ npc[g] = "idle"
    /\ ncalls < MaxCalls
    /\ ncalls' = ncalls + 1
    /\ npc' = [npc EXCEPT ![g] = a.op]
    /\ nargs' = [nargs EXCEPT ![g] = a]
    /\ UNCHANGED <<vols, mounts, dirs, nextVol, nv, nret>>

\* the call goes on to the request at p, holding v
NfsGoto(g, p, v) ==
    /\ npc' = [npc EXCEPT ![g] = p]
    /\ nv' = [nv EXCEPT ![g] = v]
    /\ UNCHANGED <<nargs, ncalls, nret>>

\* the call returns (volumeID, e), or e alone
NfsReturn(g, volumeID, e) ==
    /\ npc' = [npc EXCEPT ![g] = "idle"]
    /\ nv' = [nv EXCEPT ![g] = NoVol]
    /\ nargs' = [nargs EXCEPT ![g] = NoArgs]
    /\ nret' = NfsResult(g, nargs[g].op, volumeID, e)
    /\ UNCHANGED ncalls

\* the calls that are still to draw their id from uuid.New()
Minting == {g \in Callers : npc[g] = "Create" /\ nargs[g].spec.Format \in {"nfs", ""}}

\* driver.Create (part_000:88-127).  opt is never read; existed records, for
\* the properties, whether a stored volume had the locator when the call began.
CreateCall(g, locator, opt, spec) ==
    /\ spec.Format \in {"nfs", ""} => nextVol + Cardinality(Minting) <= MaxVols
    /\ NfsCall(g, [op |-> "Create", locator |-> locator, opt |-> opt,
                   spec |-> spec, existed |-> LocatorExists(locator)])
\* lines 90-117: the format test, uuid.New(), os.MkdirAll and the new record
CreateMkdir(g) ==
    /\ npc[g] = "Create"
    /\ IF nargs[g].spec.Format # "nfs" /\ nargs[g].spec.Format # ""
       THEN /\ NfsReturn(g, BadVolumeID, ErrFormat)
            /\ UNCHANGED <<dirs, nextVol>>
       ELSE /\ nextVol' = nextVol + 1
            /\ \E mk \in MkdirAll(dirs, Resolve(nfsMounted, DevicePath(nextVol))) :
                  /\ dirs' = mk.dirs
                  /\ IF mk.err # Nil
                     THEN NfsReturn(g, BadVolumeID, mk.err)
                     ELSE NfsGoto(g, "create_vol",
                                  Volume(nextVol, nargs[g].locator,
                                         nargs[g].spec))
    /\ UNCHANGED <<vols, mounts>>
\* lines 119-122
CreateCreateVol(g) ==
    /\ npc[g] = "create_vol"
    /\ \E cv \in CreateVol(vols, nv[g]) :
          /\ vols' = cv.vols
          /\ IF cv.err # Nil
             THEN NfsReturn(g, BadVolumeID, cv.err)
             ELSE NfsGoto(g, "create_update", nv[g])
    /\ UNCHANGED <<mounts, dirs, nextVol>>
\* lines 124-126: return v.ID, err
CreateUpdateVol(g) ==
    /\ npc[g] = "create_update"
    /\ \E uv \in UpdateVol(vols, nv[g]) :
          /\ vols' = uv.vols
          /\ NfsReturn(g, nv[g].ID, uv.err)
    /\ UNCHANGED <<mounts, dirs, nextVol>>

\* driver.Delete (part_000:129-146)
DeleteCall(g, volumeID) == NfsCall(g, [op |-> "Delete", id |-> volumeID])
\* lines 130-134
DeleteGetVol(g) ==
    /\ npc[g] = "Delete"
    /\ \E r \in GetVol(vols, nargs[g].id) :
          IF r.err # Nil
          THEN NfsReturn(g, BadVolumeID, r.err)
          ELSE NfsGoto(g, "delete_remove", r.vol)
    /\ UNCHANGED <<vols, mounts, dirs, nextVol>>
\* line 137; the result of os.Remove is dropped
DeleteRemove(g) ==
    /\ npc[g] = "delete_remove"
    /\ \E rm \in Remove(dirs, Resolve(nfsMounted, nv[g].DevicePath)) : dirs' = rm.dirs
    /\ NfsGoto(g, "delete_vol", nv[g])
    /\ UNCHANGED <<vols, mounts, nextVol>>
\* lines 139-145
DeleteDeleteVol(g) ==
    /\ npc[g] = "delete_vol"
    /\ \E dv \in DeleteVol(vols, nargs[g].id) :
          /\ vols' = dv.vols
          /\ NfsReturn(g, BadVolumeID, dv.err)
    /\ UNCHANGED <<mounts, dirs, nextVol>>

\* driver.Mount (part_000:148-166)
MountCall(g, volumeID, mountpath) ==
    NfsCall(g, [op |-> "Mount", id |-> volumeID, mountpath |-> mountpath])
\* lines 149-153
MountGetVol(g) ==
    /\ npc[g] = "Mount"
    /\ \E r \in GetVol(vols, nargs[g].id) :
          IF r.err # Nil
          THEN NfsReturn(g, BadVolumeID, r.err)
          ELSE NfsGoto(g, "mount_unmount", r.vol)
    /\ UNCHANGED <<vols, mounts, dirs, nextVol>>
\* line 155; the result of syscall.Unmount is dropped
MountUnmount(g) ==
    /\ npc[g] = "mount_unmount"
    /\ \E um \in SyscallUnmount(mounts, nargs[g].mountpath) :
          mounts' = um.mounts
    /\ NfsGoto(g, "mount_mount", nv[g])
    /\ UNCHANGED <<vols, dirs, nextVol>>
\* lines 156-162
MountMount(g) ==
    /\ npc[g] = "mount_mount"
    /\ \E mt \in SyscallMount(mounts, dirs,
                              Resolve(nfsMounted, nv[g].DevicePath),
                              nargs[g].mountpath) :
          /\ mounts' = mt.mounts
          /\ IF mt.err # Nil
             THEN NfsReturn(g, BadVolumeID, mt.err)
             ELSE NfsGoto(g, "mount_update",
                          [nv[g] EXCEPT !.AttachPath = nargs[g].mountpath])
    /\ UNCHANGED <<vols, dirs, nextVol>>
\* lines 163-165
MountUpdateVol(g) ==
    /\ npc[g] = "mount_update"
    /\ \E uv \in UpdateVol(vols, nv[g]) :
          /\ vols' = uv.vols
          /\ NfsReturn(g, BadVolumeID, uv.err)
    /\ UNCHANGED <<mounts, dirs, nextVol>>

\* line 173
NotMounted_Never(v) == FALSE
NotMounted(v) == v.AttachPath = ""

\* driver.Unmount (part_000:168-183); mountpath is not read
UnmountCall(g, volumeID, mountpath) ==
    NfsCall(g, [op |-> "Unmount", id |-> volumeID])
\* lines 169-175
UnmountGetVol(g) ==
    /\ npc[g] = "Unmount"
    /\ \E r \in GetVol(vols, nargs[g].id) :
          IF r.err # Nil
          THEN NfsReturn(g, BadVolumeID, r.err)
          ELSE IF NotMounted(r.vol)
          THEN NfsReturn(g, BadVolumeID, ErrNotMounted)
          ELSE NfsGoto(g, "unmount_sys", r.vol)
    /\ UNCHANGED <<vols, mounts, dirs, nextVol>>
\* lines 176-180
UnmountUnmount(g) ==
    /\ npc[g] = "unmount_sys"
    /\ \E um \in SyscallUnmount(mounts, nv[g].AttachPath) :
          /\ mounts' = um.mounts
          /\ IF um.err # Nil
             THEN NfsReturn(g, BadVolumeID, um.err)
             ELSE NfsGoto(g, "unmount_update",
                          [nv[g] EXCEPT !.AttachPath = ""])
    /\ UNCHANGED <<vols, dirs, nextVol>>
\* lines 181-182
UnmountUpdateVol(g) ==
    /\ npc[g] = "unmount_update"
    /\ \E uv \in UpdateVol(vols, nv[g]) :
          /\ vols' = uv.vols
          /\ NfsReturn(g, BadVolumeID, uv.err)
    /\ UNCHANGED <<mounts, dirs, nextVol>>

\* nfs.Init (part_000:36-73) run again while the driver is in use, by a New
\* for another name or by a direct call.  It takes no lock the volume
\* operations take, so its two system calls are steps of their own.
DriverInitCall(g, params) == NfsCall(g, [op |-> "Init", params |-> params])
\* lines 37-57: the path parameter, the driver object, os.MkdirAll(nfsMountPath)
DriverInitMkdir(g) ==
    /\ npc[g] = "Init"
    /\ IF "path" \notin DOMAIN nargs[g].params
       THEN NfsReturn(g, BadVolumeID, ErrNoPath)
       ELSE \E ok \in BOOLEAN :
              IF ok THEN NfsGoto(g, "init_unmount", nv[g])
                    ELSE NfsReturn(g, BadVolumeID, ErrMkdir)
    /\ UNCHANGED <<vols, mounts, dirs, nextVol, nfsMounted>>
\* line 60; the result of syscall.Unmount is dropped
DriverInitUnmount(g) ==
    /\ npc[g] = "init_unmount"
    /\ nfsMounted' \in UnmountDropped(nfsMounted)
    /\ NfsGoto(g, "init_mount", nv[g])
    /\ UNCHANGED <<vols, mounts, dirs, nextVol>>
\* lines 61-72
DriverInitMount(g) ==
    /\ npc[g] = "init_mount"
    /\ \E mt \in MountOnTop(nfsMounted, NfsSource(nargs[g].params)) :
          /\ nfsMounted' = mt.stack
          /\ NfsReturn(g, BadVolumeID, mt.err)
    /\ UNCHANGED <<vols, mounts, dirs, nextVol>>

\* driver.Shutdown (part_000:189-192): syscall.Unmount(nfsMountPath, 0),
\* its result dropped.  When the export comes off, the paths under
\* nfsMountPath lead into what lies beneath it; the directories of the export
\* stay where they are, and so do the bind mounts made of them.
NfsShutdown(g) ==
    /\ npc[g] = "idle"
    /\ ncalls < MaxCalls
    /\ ncalls' = ncalls + 1
    /\ nfsMounted' \in UnmountDropped(nfsMounted)
    /\ UNCHANGED <<vols, mounts, dirs, nextVol, npc, nargs, nv, nret>>

\* the driver as Init returns it: no volume yet, nothing mounted by it
NfsIdle ==
    /\ vols = <<>>
    /\ mounts = [p \in MountPaths |-> <<>>]
    /\ dirs = {}
    /\ nextVol = 1
    /\ npc = [g \in Callers |-> "idle"]
    /\ nargs = [g \in Callers |-> NoArgs]
    /\ nv = [g \in Callers |-> NoVol]
    /\ ncalls = 0
    /\ nret = NoNfsResult

----------------------------------------------------------------------------
(* Specifications *)

Init == RegInit /\ DbIdle /\ store = Absent /\ NfsIdle
Next ==
    \E t \in Threads :
       \/ \E n \in Names, f \in InitFuncs : RegisterCall(t, n, f) /\ UNCHANGED <<dbvars, nfsvars>>
       \/ RegisterLock(t) /\ UNCHANGED <<dbvars, nfsvars>>
       \/ Register(t) /\ UNCHANGED <<dbvars, nfsvars>>
       \/ \E n \in Names, p \in DriverParams : NewCall(t, n, p) /\ UNCHANGED <<dbvars, nfsvars>>
       \/ NewLock(t) /\ UNCHANGED <<dbvars, nfsvars>>
       \/ NewCheck(t) /\ UNCHANGED <<dbvars, nfsvars>>
       \/ NfsInitParams(t) /\ UNCHANGED <<dbvars, nfsvars>>
       \/ NfsInitMkdir(t) /\ UNCHANGED <<dbvars, nfsvars>>
       \/ NfsInitUnmount(t) /\ UNCHANGED <<dbvars, nfsvars>>
       \/ NfsInitMount(t) /\ UNCHANGED <<dbvars, nfsvars>>
       \/ InitAny(t) /\ UNCHANGED <<dbvars, nfsvars>>
       \/ NewStoreBegin(t) /\ UNCHANGED <<dbvars, nfsvars>>
       \/ NewStore(t) /\ UNCHANGED <<dbvars, nfsvars>>
       \/ \E n \in Names : GetCall(t, n) /\ UNCHANGED <<dbvars, nfsvars>>
       \/ Get(t) /\ UNCHANGED <<dbvars, nfsvars>>
       \/ GetFatal(t) /\ UNCHANGED <<dbvars, nfsvars>>
       \/ ShutdownCall(t) /\ UNCHANGED <<dbvars, nfsvars>>
       \/ ShutdownLock(t) /\ UNCHANGED <<dbvars, nfsvars>>
       \/ ShutdownRange(t) /\ UNCHANGED <<dbvars, nfsvars>>
       \/ DriverShutdown(t) /\ UNCHANGED <<dbvars, nfsvars>>

Spec == Init /\ [][Next]_vars

InitDB == RegInit /\ DbIdle /\ store \in InitialStores /\ NfsIdle
NextDB ==
    \E p \in Procs :
       \/ ReadCall(p) /\ UNCHANGED <<regvars, nfsvars>>
       \/ ReadDatabase(p) /\ UNCHANGED <<regvars, nfsvars>>
       \/ \E db \in Databases : WriteCall(p, db) /\ UNCHANGED <<regvars, nfsvars>>
       \/ WriteDatabase(p) /\ UNCHANGED <<regvars, nfsvars>>
SpecDB == InitDB /\ [][NextDB]_vars

InitNfs ==
    RegIdle /\ nfsMounted = <<Export>> /\ DbIdle /\ store = Absent /\ NfsIdle
NextNfs ==
    \E g \in Callers :
       \/ \E l \in Locators, o \in CreateOptions, s \in VolumeSpecs :
             CreateCall(g, l, o, s) /\ UNCHANGED <<regvars, dbvars>>
       \/ CreateMkdir(g) /\ UNCHANGED <<regvars, dbvars>>
       \/ CreateCreateVol(g) /\ UNCHANGED <<regvars, dbvars>>
       \/ CreateUpdateVol(g) /\ UNCHANGED <<regvars, dbvars>>
       \/ \E id \in VolIds : DeleteCall(g, id) /\ UNCHANGED <<regvars, dbvars>>
       \/ DeleteGetVol(g) /\ UNCHANGED <<regvars, dbvars>>
       \/ DeleteRemove(g) /\ UNCHANGED <<regvars, dbvars>>
       \/ DeleteDeleteVol(g) /\ UNCHANGED <<regvars, dbvars>>
       \/ \E id \in VolIds, p \in MountPaths :
             MountCall(g, id, p) /\ UNCHANGED <<regvars, dbvars>>
       \/ MountGetVol(g) /\ UNCHANGED <<regvars, dbvars>>
       \/ MountUnmount(g) /\ UNCHANGED <<regvars, dbvars>>
       \/ MountMount(g) /\ UNCHANGED <<regvars, dbvars>>
       \/ \E id \in VolIds, p \in MountPaths :
             UnmountCall(g, id, p) /\ UNCHANGED <<regvars, dbvars>>
       \/ UnmountGetVol(g) /\ UNCHANGED <<regvars, dbvars>>
       \/ UnmountUnmount(g) /\ UNCHANGED <<regvars, dbvars>>
       \/ UnmountUpdateVol(g) /\ UNCHANGED <<regvars, dbvars>>
       \/ MountUpdateVol(g) /\ UNCHANGED <<regvars, dbvars>>
       \/ NfsShutdown(g)
             /\ UNCHANGED <<drivers, instances, mutex, pc, arg, cur, todo, ret,
                            nextInst, sdCalls, fatal, shut, dbvars>>
       \/ \E p \in DriverParams :
             DriverInitCall(g, p) /\ UNCHANGED <<regvars, dbvars>>
       \/ DriverInitMkdir(g)
             /\ UNCHANGED <<drivers, instances, mutex, pc, arg, cur, todo, ret,
                            nextInst, sdCalls, fatal, shut, dbvars>>
       \/ DriverInitUnmount(g)
             /\ UNCHANGED <<drivers, instances, mutex, pc, arg, cur, todo, ret,
                            nextInst, sdCalls, fatal, shut, dbvars>>
       \/ DriverInitMount(g)
             /\ UNCHANGED <<drivers, instances, mutex, pc, arg, cur, todo, ret,
                            nextInst, sdCalls, fatal, shut, dbvars>>
SpecNfs == InitNfs /\ [][NextNfs]_vars

\* The registry under the scheduler's guarantees.  A thread inside New,
\* Register or Shutdown keeps running (the initializers and the drivers'
\* Shutdown() return), and sync.Mutex hands the lock to a goroutine that has
\* been waiting for it rather than letting later arrivals overtake it forever.
Acquire(t) ==
    (RegisterLock(t) \/ NewLock(t) \/ ShutdownLock(t)) /\ UNCHANGED <<dbvars, nfsvars>>
Holder(t) ==
    /\ \/ Register(t) \/ NewCheck(t) \/ NfsInitParams(t) \/ NfsInitMkdir(t)
       \/ NfsInitUnmount(t) \/ NfsInitMount(t) \/ InitAny(t)
       \/ NewStoreBegin(t) \/ NewStore(t)
       \/ ShutdownRange(t) \/ DriverShutdown(t)
    /\ UNCHANGED <<dbvars, nfsvars>>
SpecLive ==
    /\ Init
    /\ [][Next]_vars
    /\ \A t \in Threads : SF_vars(Acquire(t)) /\ WF_vars(Holder(t))

----------------------------------------------------------------------------
(* Properties of the driver registry, checked under Spec *)

\* the step in which thread t's call returns
NewPcs == {"new_check", "init_call", "init_mkdir", "init_unmount",
           "init_mount", "new_storing"}
NewReturns(t) == pc[t] \in NewPcs /\ pc'[t] = "idle"
RegisterReturns(t) == pc[t] = "reg_check" /\ pc'[t] = "idle"
GetReturns(t) == pc[t] = "get_read" /\ pc'[t] = "idle"

\* C1: once a name has a live instance, the instance bound to it is never
\* replaced and every New for that name returns ErrExist and no driver.
C1_OneInstancePerName ==
    [][\A n \in Names :
          instances[n] # NoDriver =>
             /\ instances'[n] = instances[n]
             /\ \A t \in Threads :
                   (NewReturns(t) /\ arg[t].name = n) =>
                      ret'[t] = Result("New", n, NoDriver, ErrExist)]_vars

\* a second New for a live name has returned ErrExist
C1_Witness ==
    \E t \in Threads, n \in Names :
       /\ ret[t] = Result("New", n, NoDriver, ErrExist)
       /\ instances[n] # NoDriver

\* C2: Register for a name that is already registered returns ErrExist and
\* leaves the registered initializer in place; the first Register for a name
\* returns nil and stores its initializer.
C2_RegisterTwiceFails ==
    [][\A t \in Threads :
          RegisterReturns(t) =>
             LET n == arg[t].name IN
               IF drivers[n] # None
               THEN /\ ret'[t] = Result("Register", n, NoDriver, ErrExist)
                    /\ drivers' = drivers
               ELSE /\ ret'[t] = Result("Register", n, NoDriver, Nil)
                    /\ drivers' = [drivers EXCEPT ![n] = arg[t].f]]_vars

\* a Register has failed with ErrExist while both names are registered, with
\* different initializers
C2_Witness ==
    \E t \in Threads, n \in Names :
       /\ ret[t] = Result("Register", n, NoDriver, ErrExist)
       /\ \A m \in Names : drivers[m] # None
       /\ \E m \in Names : drivers[m] # drivers[n]

\* C3: New for a name with no live instance and no registered initializer
\* returns ErrNotSupported and stores no instance.
C3_NewUnregisteredNotSupported ==
    [][\A t \in Threads :
          LET n == arg[t].name IN
            (/\ NewReturns(t)
             /\ instances[n] = NoDriver
             /\ drivers[n] = None) =>
               /\ ret'[t] = Result("New", n, NoDriver, ErrNotSupported)
               /\ instances' = instances]_vars

\* New has returned ErrNotSupported for a name that is still unregistered,
\* while the other name is registered
C3_Witness ==
    \E t \in Threads, n \in Names :
       /\ ret[t] = Result("New", n, NoDriver, ErrNotSupported)
       /\ drivers[n] = None
       /\ instances[n] = NoDriver
       /\ \E m \in Names : drivers[m] # None

\* C4: Get(n) returns the live instance of n when there is one, and
\* ErrDriverNotFound when there is none (and none is being stored).
C4_GetReturnsLiveInstance ==
    [][\A t \in Threads :
          GetReturns(t) =>
             LET n == arg[t].name IN
               /\ instances[n] # NoDriver =>
                     ret'[t] = Result("Get", n, instances[n], Nil)
               /\ (/\ instances[n] = NoDriver
                   /\ \A u \in Writers : arg[u].name # n) =>
                     ret'[t] = Result("Get", n, NoDriver, ErrDriverNotFound)]_vars

\* the places where a thread is about to read or write one of the two maps,
\* or is inside a map assignment
MapAccessPcs == {"reg_check", "new_check", "new_store", "new_storing",
                 "get_read", "sd_range"}

\* C9: a thread reads or writes the registry maps only while it holds the
\* mutex, and no thread reads a map while another is inside an assignment.
C9_MapsGuardedByLock ==
    /\ \A t \in Threads : pc[t] \in MapAccessPcs => mutex = t
    /\ \A t \in Threads : pc[t] = "get_read" => Writers \ {t} = {}

\* the places where a driver's own code runs: an initializer, called from
\* New, and a driver's Shutdown(), called from the registry's Shutdown
DriverCodePcs == {"init_call", "init_mkdir", "init_unmount", "init_mount",
                  "sd_driver"}

\* C10: the mutex is never held while an initializer or a driver's
\* Shutdown() is executing.
C10_LockNeverHeldInDriverCode ==
    \A t \in Threads : pc[t] \in DriverCodePcs => mutex = NoThread

\* C10 (amended): the mutex is held from entry to return of New and Shutdown;
\* while an initializer or a driver's Shutdown() is executing, the calling
\* thread holds it.
C10_LockHeldInDriverCode ==
    \A t \in Threads : pc[t] \in DriverCodePcs => mutex = t

\* a driver's Shutdown() is executing under the mutex while the other thread
\* waits for the mutex
C10_Witness ==
    \E t \in Threads, u \in Threads :
       /\ pc[t] = "sd_driver"
       /\ mutex = t
       /\ pc[u] \in {"new_lock", "reg_lock", "sd_lock"}

----------------------------------------------------------------------------
(* Properties of the cluster database, checked under SpecDB *)

\* the step in which process p's readDatabase() returns
ReadReturns(p) == dbpc[p] = "read" /\ dbpc'[p] = "idle"

\* C5: a readDatabase() whose Get reaches the store after a successful
\* writeDatabase(db), the last write, returns db and no error.
C5_WriteReadRoundTrip ==
    [][\A p \in Procs :
          (/\ ReadReturns(p)
           /\ lastPut # NoDatabase
           /\ dbret'[p].get = NoErr) =>
             /\ local'[p] = lastPut
             /\ dbret'[p].err = NoErr]_vars

\* a process has written a record with a node table over a key that held
\* something else, and read it back; no other process has made a call
C5_Witness ==
    \E p \in Procs :
       /\ dbpc[p] = "idle"
       /\ dbret[p] = DbResult("read", NoErr, NoErr)
       /\ \A q \in Procs \ {p} : dbpc[q] = "idle" /\ dbret[q].op = None
       /\ lastPut # NoDatabase
       /\ local[p] = lastPut
       /\ DOMAIN lastPut.Nodes.m = NodeIds
       /\ lastPut.Cluster.Status = StatusOk

\* C6: readDatabase() on a store that reports key-not-found, and on a store
\* whose key holds "{}", returns status "initializing", an empty node table
\* and no error.
C6_UninitializedDefault ==
    [][\A p \in Procs :
          (/\ ReadReturns(p)
           /\ \/ ~store.present /\ Contains(dbret'[p].get, KeyNotFoundMsg)
              \/ store = Stored(EmptyObject) /\ dbret'[p].get = NoErr) =>
             /\ local'[p].Cluster.Status = "initializing"
             /\ local'[p].Nodes = MakeMap(<<>>)
             /\ dbret'[p].err = NoErr]_vars

\* a read of the absent key has returned the default record
C6_Witness ==
    \E p \in Procs :
       /\ ~store.present
       /\ dbret[p].op = "read"
       /\ Contains(dbret[p].get, KeyNotFoundMsg)
       /\ dbret[p].err = NoErr
       /\ local[p] = NewDatabase

\* C7: readDatabase() on a key that holds undecodable bytes returns an error.
C7_CorruptionIsAnError ==
    [][\A p \in Procs :
          (/\ ReadReturns(p)
           /\ store.present
           /\ store.Value \in Malformed \cup WrongType
           /\ dbret'[p].get = NoErr) =>
             dbret'[p].err # NoErr]_vars

\* a read of a truncated record has returned an error
C7_Witness ==
    \E p \in Procs :
       /\ store.present
       /\ store.Value \in Malformed
       /\ Len(store.Value) > 2
       /\ dbret[p] = DbResult("read", ErrSyntax, NoErr)

\* C8: when Get fails with an error other than key-not-found, readDatabase()
\* returns that error; a Get error is turned into a nil error only when it is
\* key-not-found.
C8_StoreErrorSurfaced ==
    [][\A p \in Procs :
          ReadReturns(p) =>
             LET g == dbret'[p].get
                 e == dbret'[p].err IN
               /\ (g # NoErr /\ ~Contains(g, KeyNotFoundMsg)) => e = g
               /\ (g # NoErr /\ e = NoErr) => Contains(g, KeyNotFoundMsg)]_vars

\* a read has returned the store's failure
C8_Witness ==
    \E p \in Procs :
       /\ dbret[p] = DbResult("read", ErrUnreachable, ErrUnreachable)
       /\ store.present

\* the step in which process p's writeDatabase() returns
WriteReturns(p) == dbpc[p] = "write" /\ dbpc'[p] = "idle"

\* C11: writeDatabase has no conflict detection.  Whatever the key holds and
\* however stale the writer's record is, the write fails only when the store
\* fails; otherwise the key holds the writer's record, and nothing of what it
\* held before.
C11_LastWriterWins ==
    [][\A p \in Procs :
          WriteReturns(p) =>
             \/ /\ dbret'[p].err = NoErr
                /\ store' = Stored(Marshal(local[p]))
                /\ lastPut' = local[p]
             \/ /\ dbret'[p].err \in StoreFailures
                /\ store' = store]_vars

\* a lost update: both processes read the key, one wrote its record, then the
\* other wrote a different record over it without having read it; both writes
\* returned nil and the key holds the second record only
C11_Witness ==
    \E p \in Procs, q \in Procs :
       /\ p # q
       /\ copy[p] = "clobbered"
       /\ copy[q] = "stale"
       /\ dbret[p] = DbResult("write", NoErr, NoErr)
       /\ dbret[q] = DbResult("write", NoErr, NoErr)
       /\ local[p] # local[q]
       /\ store = Stored(Marshal(local[p]))
       /\ Unmarshal(store.Value, NewDatabase).db # local[q]

\* C19: readDatabase() never writes to the store: the steps of a call, in
\* every outcome, leave the value under the key unchanged.
C19_ReadDoesNotWrite ==
    [][\A p \in Procs :
          (ReadReturns(p) \/ (dbpc[p] = "idle" /\ dbpc'[p] = "read")) =>
             store' = store]_vars

\* both processes have read the uninitialized cluster, one after the other,
\* and the key is still absent
C19_Witness ==
    /\ store = Absent
    /\ \A p \in Procs :
          /\ dbret[p] = DbResult("read", NoErr, ErrKeyNotFound)
          /\ local[p] = NewDatabase

----------------------------------------------------------------------------
(* Further properties of the driver registry *)

InitPcs == {"init_call", "init_mkdir", "init_unmount", "init_mount"}
InitErrors == {ErrNoPath, ErrMkdir, ErrMount, ErrInitAny}
ShutdownReturns(t) == pc[t] = "sd_range" /\ pc'[t] = "idle"
Live(inst) == {n \in Names : inst[n] # NoDriver}
Occurrences(seq, x) == Cardinality({i \in 1..Len(seq) : seq[i] = x})

\* a Shutdown call that has returned ran Shutdown() on the live instance of n
ShutDown(n) == instances[n] # NoDriver /\ instances[n].id \in shut

\* C12: while a thread is inside the registry's Shutdown no entry of either
\* map changes; when it returns it has called Shutdown() exactly once on
\* every live instance; and from then on every Get of a name that was live
\* returns the same instance and every New of it returns ErrExist.
C12_ShutdownKeepsInstances ==
    [][\A t \in Threads :
          LET n == arg[t].name IN
            /\ pc[t] \in {"sd_range", "sd_driver"} =>
                  instances' = instances /\ drivers' = drivers
            /\ ShutdownReturns(t) =>
                  /\ Len(sdCalls[t]) = Cardinality(Live(instances))
                  /\ \A m \in Live(instances) :
                        Occurrences(sdCalls[t], instances[m].id) = 1
            /\ (GetReturns(t) /\ ShutDown(n)) =>
                  ret'[t] = Result("Get", n, instances[n], Nil)
            /\ (NewReturns(t) /\ ShutDown(n)) =>
                  ret'[t] = Result("New", n, NoDriver, ErrExist)]_vars

\* C13: the instance map changes only when New stores the driver a
\* successful initializer returned, and Get returns only such drivers.  When
\* the initializer fails New returns its error and no driver, the map is
\* unchanged, a lookup of the name finds nothing and the next New for the
\* name goes to the initializer again.
C13_NoPartialInstance ==
    [][\A t \in Threads :
          LET n == arg[t].name IN
            /\ \A m \in Names :
                  instances'[m] # instances[m] =>
                     \E u \in Threads :
                        /\ pc[u] = "new_storing"
                        /\ arg[u].name = m
                        /\ cur[u].kind \in {"nfs", "any"}
                        /\ instances'[m] = cur[u]
            /\ (NewReturns(t) /\ pc[t] \in InitPcs) =>
                  /\ ret'[t].val = NoDriver
                  /\ ret'[t].err \in InitErrors
                  /\ instances' = instances
                  /\ MapRead(instances', n) =
                        [val |-> NoDriver, err |-> ErrDriverNotFound]
                  /\ NewLookup(instances', drivers', n) = "init"
            /\ (GetReturns(t) /\ ret'[t].val # NoDriver) =>
                  /\ ret'[t].val.kind \in {"nfs", "any"}
                  /\ \/ ret'[t].val = instances[n]
                     \/ \E u \in Writers : ret'[t].val = cur[u]
            /\ (/\ GetReturns(t)
                /\ instances[n] = NoDriver
                /\ \A u \in Writers : arg[u].name # n) =>
                  ret'[t] = Result("Get", n, NoDriver, ErrDriverNotFound)]_vars

\* C17: an initializer runs only under the mutex and only for a name without
\* a live instance, every driver an initializer returned is bound to its own
\* name, a New that returns a driver has just bound it to a name that had
\* none, and a New for a name with a live instance returns ErrExist.
C17_ConcurrentNewOneWinner ==
    [][/\ \A t \in Threads :
            pc'[t] \in InitPcs \cup {"new_store", "new_storing"} =>
               /\ instances'[arg'[t].name] = NoDriver
               /\ mutex' = t
       /\ nextInst' - 1 =
             Cardinality(Live(instances'))
             + Cardinality({t \in Threads :
                               pc'[t] \in {"new_store", "new_storing"}})
       /\ \A t \in Threads :
            LET n == arg[t].name IN
              NewReturns(t) =>
                 /\ ret'[t].err = Nil =>
                       /\ instances[n] = NoDriver
                       /\ ret'[t].val # NoDriver
                       /\ instances'[n] = ret'[t].val
                 /\ instances[n] # NoDriver =>
                       ret'[t] = Result("New", n, NoDriver, ErrExist)
                 /\ ret'[t].val # NoDriver => ret'[t].err = Nil]_vars

\* two threads have called New for the same name: one has returned the
\* driver that is bound to the name, the other holds the mutex on its way to
\* the ErrExist return
C17_Witness ==
    \E t \in Threads, u \in Threads, n \in Names :
       /\ t # u
       /\ instances[n] # NoDriver
       /\ ret[t] = Result("New", n, instances[n], Nil)
       /\ pc[u] = "new_check"
       /\ arg[u].name = n
       /\ mutex = u

(* Checked under SpecLive *)

WaitPcs == {"reg_lock", "new_lock", "sd_lock"}
LockedPcs == {"reg_check", "new_check", "new_store", "new_storing",
              "sd_range", "sd_driver"} \cup InitPcs

\* C20: Register, New and Shutdown give the mutex back on every return, no
\* thread outside them holds it, and a thread that waits for the mutex gets
\* it (as long as the process runs).
C20_LockReleasedOnEveryPath ==
    /\ [][\A t \in Threads :
             /\ (pc[t] \in LockedPcs /\ pc'[t] = "idle") =>
                   mutex = t /\ mutex' = NoThread
             /\ mutex' = t => pc'[t] \in LockedPcs]_vars
    /\ \A t \in Threads : (pc[t] \in WaitPcs) ~> (mutex = t \/ fatal)

\* a thread holds the mutex inside New while the other waits for it
C20_Witness ==
    \E t \in Threads, u \in Threads :
       /\ mutex = t
       /\ pc[t] = "new_check"
       /\ pc[u] \in WaitPcs
       /\ ret[t] = NoRet
       /\ \E n \in Names : instances[n] # NoDriver

----------------------------------------------------------------------------
(* Properties of the NFS driver's volume operations, checked under SpecNfs *)

\* the step in which caller g's call of op returns
NfsReturns(g, op) == nargs[g].op = op /\ npc'[g] = "idle"
\* a directory that the path source has named is among the mounts on target
MountedAt(source, target) ==
    /\ target \in DOMAIN mounts
    /\ \E i \in 1..Len(mounts[target]) : mounts[target][i][2] = source[2]

\* C14: a Create with options.FailIfExists set and a locator that a stored
\* volume had when the call began fails (with an error; already-exists is
\* the kind the interface names) and stores no record for a new volume.
C14_FailIfExistsFails ==
    [][\A g \in Callers :
          (/\ NfsReturns(g, "Create")
           /\ nargs[g].opt.FailIfExists
           /\ nargs[g].existed)
          => (nret'.err # Nil /\ nv[g].ID \notin DOMAIN vols')]_vars

\* C15: an Unmount that finds its volume stored with an empty AttachPath
\* returns an error there and then: the volume records and the mount table
\* stay as they were, and the call makes neither the syscall.Unmount nor the
\* UpdateVol request.
C15_UnmountNotMounted ==
    [][\A g \in Callers :
          (/\ npc[g] = "Unmount"
           /\ npc'[g] # "Unmount"
           /\ nargs[g].id \in DOMAIN vols
           /\ vols[nargs[g].id].AttachPath = "")
          => /\ npc'[g] = "idle"
             /\ nret'.g = g
             /\ nret'.op = "Unmount"
             /\ nret'.err # Nil
             /\ vols' = vols
             /\ mounts' = mounts]_vars

\* Unmount has just refused a stored volume that is not mounted
C15_Witness ==
    /\ nret.op = "Unmount"
    /\ nret.err = ErrNotMounted
    /\ \E i \in DOMAIN vols : vols[i].AttachPath = ""

\* C16: between calls, every stored volume record with a non-empty
\* AttachPath belongs to a volume whose directory is mounted on that path.
C16_AttachPathImpliesMounted ==
    (\A g \in Callers : npc[g] = "idle") =>
       \A i \in DOMAIN vols :
          vols[i].AttachPath # "" =>
             MountedAt(vols[i].DevicePath, vols[i].AttachPath)

\* C18: Create returns BadVolumeID exactly when it returns an error.
C18_BadVolumeIDIffError ==
    [][\A g \in Callers :
          NfsReturns(g, "Create") =>
             (nret'.err # Nil <=> nret'.id = BadVolumeID)]_vars

====
